---- MODULE Spec2Model ----
(***************************************************************************)
(* SideScore: the score poller, the follow store, the filter store, the    *)
(* renderer and the picture-in-picture adapter of src/static/app.js, with  *)
(* the earlier revision of the same script (src/unnamed/part_000) kept as  *)
(* rev = "legacy".                                                         *)
(*                                                                         *)
(* JavaScript values are tagged records so that a malformed value (a       *)
(* string where an array is expected, an absent field) is a value of the   *)
(* model and the code's guards decide what happens to it.                  *)
(***************************************************************************)
EXTENDS Integers, Sequences, FiniteSets, TLC

\* ---------------------------------------------------------------- bounds
\* fetches that may be in flight at once (a fetch slower than POLL_MS)
MaxInflight == 2
\* picture-in-picture windows opened in one run
MaxWins == 2

\* ------------------------------------------------------------- constants
LeagueOrder == <<"pl", "ch", "l1", "l2">>

LeagueIds == {LeagueOrder[i] : i \in 1..Len(LeagueOrder)}

leagueNames == [pl |-> "Premier League", ch |-> "Championship",
                l1 |-> "League One", l2 |-> "League Two"]

\* the data-filter values of the segmented control
FilterButtons == {"all"} \cup LeagueIds

EmptySnapshot == [k \in LeagueIds |-> <<>>]

\* ------------------------------------------------------ sequence helpers
SeqToSet(s) == {s[i] : i \in 1..Len(s)}

RECURSIVE FilterSeq(_, _)
FilterSeq(s, keep) ==
    IF s = <<>> THEN <<>>
    ELSE IF Head(s) \in keep THEN <<Head(s)>> \o FilterSeq(Tail(s), keep)
         ELSE FilterSeq(Tail(s), keep)

\* new Set(iterable): insertion order, the first occurrence of a value kept
RECURSIVE NewSet(_)
NewSet(s) ==
    IF s = <<>> THEN <<>>
    ELSE LET front == NewSet(SubSeq(s, 1, Len(s) - 1))
             x == s[Len(s)]
         IN IF x \in SeqToSet(front) THEN front ELSE Append(front, x)

SetAdd(set, x) == IF x \in SeqToSet(set) THEN set ELSE Append(set, x)

SetDelete(set, x) == FilterSeq(set, SeqToSet(set) \ {x})

\* ------------------------------------------------------- raw feed values
\* A raw record of the feed. home: the record carries a `home` field;
\* iso: "none" (no kickoffISO), "ok" (an ISO timestamp), "bad" (text that is
\* no timestamp); nul: the array element is null.
Rec(id, isLive, home, iso) ==
    [id |-> id, isLive |-> isLive, home |-> home, iso |-> iso, nul |-> FALSE]

NullRec == [id |-> "", isLive |-> FALSE, home |-> FALSE, iso |-> "none", nul |-> TRUE]

\* A field of a bucket: t = "undef" | "arr" | "str" (a non-empty string) |
\* "num" (a non-zero number); v: the array's elements.
Undef == [t |-> "undef", v |-> <<>>]
Arr(v) == [t |-> "arr", v |-> v]
StrVal == [t |-> "str", v |-> <<>>]
NumVal == [t |-> "num", v |-> <<>>]

\* A league bucket: t = "undef" (no such key) | "str" (a string) | "obj".
Bucket(live, upcoming) == [t |-> "obj", live |-> live, upcoming |-> upcoming]
NoBucket == [t |-> "undef", live |-> Undef, upcoming |-> Undef]
StrBucket == [t |-> "str", live |-> Undef, upcoming |-> Undef]

\* The parsed body, an object: leagues = "undef" (no such key) | "obj".
Body(pl, ch, l1, l2) ==
    [leagues |-> "obj", v |-> [pl |-> pl, ch |-> ch, l1 |-> l1, l2 |-> l2]]
NoLeaguesBody ==
    [leagues |-> "undef", v |-> [k \in LeagueIds |-> NoBucket]]
RecA == Rec("m1", TRUE, TRUE, "none")
RecB == Rec("m2", FALSE, TRUE, "ok")
RecC == Rec("m2", TRUE, FALSE, "none")
RecD == Rec("m1", FALSE, TRUE, "bad")

EmptyBucket == Bucket(Arr(<<>>), Arr(<<>>))

\* The bodies the feed answers with.
Feeds == <<
    \* 1: live and upcoming both given; an empty live list; absent fields
    Body(Bucket(Arr(<<RecA>>), Arr(<<RecB>>)), Bucket(Arr(<<>>), Arr(<<RecB>>)),
         EmptyBucket, Bucket(Undef, Undef)),
    \* 2: two records in one list, one without a home field, one not live
    Body(Bucket(Arr(<<RecC, RecD>>), Undef), EmptyBucket, EmptyBucket, EmptyBucket),
    \* 3: buckets absent or malformed
    Body(NoBucket, StrBucket, Bucket(StrVal, Arr(<<RecD>>)), Bucket(Undef, NumVal)),
    \* 4: no leagues object
    NoLeaguesBody,
    \* 5: a null element in a later league's list
    Body(Bucket(Arr(<<RecC>>), Undef), Bucket(Arr(<<NullRec>>), Undef),
         EmptyBucket, EmptyBucket)
  >>

FeedIds == 1..Len(Feeds)

\* How a fetch ends: the transport fails ("neterr"), the status is not 2xx
\* ("http"), or a body arrives ("ok").
ResponseKinds == {"neterr", "http", "ok"}

\* ------------------------------------------------------- feed normalizer
\* Date.prototype.toLocaleTimeString gives "Invalid Date" for a date that
\* did not parse; it does not throw.
isoToLocalKickoff(iso) ==
    IF iso = "none" THEN ""
    ELSE IF iso = "ok" THEN "15:00"
    ELSE "Invalid Date"

\* The match model of app.js. minute holds the meta text; home tells
\* whether m.home is defined (getAbbr reads it).
toMatchModel(f) ==
    LET kickoff == isoToLocalKickoff(f.iso)
    IN [id |-> f.id,
        home |-> f.home,
        status |-> IF f.isLive THEN "LIVE" ELSE "UPCOMING",
        minute |-> IF f.isLive THEN "23"
                   ELSE IF kickoff # "" THEN "KO " \o kickoff ELSE "",
        kickoff |-> kickoff,
        leagueName |-> "undefined"]

\* part_000: the same, with no kickoff field on the model.
toMatchModelLegacy(f) ==
    [toMatchModel(f) EXCEPT !.kickoff = "undefined"]

\* ------------------------------------------------------- snapshot merger
DefaultBucket == Bucket(Arr(<<>>), Arr(<<>>))

\* app.js: data?.leagues || {}, then leagues?.[key] || { live: [], upcoming: [] }
bucketOf(data, key) ==
    IF data.leagues = "obj" /\ data.v[key].t # "undef"
    THEN data.v[key]
    ELSE DefaultBucket

\* pickList that prefers the upcoming list
pickListUpcomingFirst(bucket) ==
    IF bucket.upcoming.t = "arr" /\ Len(bucket.upcoming.v) > 0 THEN bucket.upcoming.v
    ELSE IF bucket.live.t = "arr" THEN bucket.live.v
    ELSE <<>>

\* app.js: live when it is a non-empty array, else upcoming when an array, else []
pickList(bucket) ==
    IF bucket.live.t = "arr" /\ Len(bucket.live.v) > 0 THEN bucket.live.v
    ELSE IF bucket.upcoming.t = "arr" THEN bucket.upcoming.v
    ELSE <<>>

\* list.map(f => { m = toMatchModel(f); m.leagueName = leagueNames[key]; })
\* toMatchModel(null) raises a TypeError on f.homeGoals.
RECURSIVE stamped(_, _)
stamped(list, key) ==
    IF list = <<>> THEN <<>>
    ELSE <<[toMatchModel(Head(list)) EXCEPT !.leagueName = leagueNames[key]]>>
         \o stamped(Tail(list), key)

mapList(list, key) ==
    [threw |-> \E i \in 1..Len(list) : list[i].nul, list |-> stamped(list, key)]

leagueResult(data, key) == mapList(pickList(bucketOf(data, key)), key)

\* part_000: leagues = data.leagues; bucket = leagues[key];
\* list = (bucket.live && bucket.live.length) ? bucket.live : (bucket.upcoming || []);
\* next[key] = list.map(toMatchModel). A property read on null or undefined
\* and a .map on a string or a number raise a TypeError.
RECURSIVE mappedLegacy(_)
mappedLegacy(list) ==
    IF list = <<>> THEN <<>>
    ELSE <<toMatchModelLegacy(Head(list))>> \o mappedLegacy(Tail(list))

leagueResultLegacy(data, key) ==
    LET b == data.v[key]
        none == [threw |-> TRUE, list |-> <<>>]
        mapped(list) ==
            [threw |-> \E i \in 1..Len(list) : list[i].nul, list |-> mappedLegacy(list)]
    IN IF data.leagues # "obj" \/ b.t = "undef" THEN none
       ELSE IF b.live.t = "arr" /\ Len(b.live.v) > 0 THEN mapped(b.live.v)
       ELSE IF b.live.t = "str" THEN none
       ELSE IF b.upcoming.t = "undef" THEN mapped(<<>>)
       ELSE IF b.upcoming.t = "arr" THEN mapped(b.upcoming.v)
       ELSE none

\* The loop over ["pl","ch","l1","l2"] building `next`: threw tells whether
\* an iteration raised; next then holds the leagues built before it.
RECURSIVE mergeFrom(_, _, _, _)
mergeFrom(data, legacy, i, next) ==
    IF i > Len(LeagueOrder) THEN [threw |-> FALSE, next |-> next]
    ELSE LET key == LeagueOrder[i]
             built(res) ==
                 IF res.threw THEN [threw |-> TRUE, next |-> next]
                 ELSE mergeFrom(data, legacy, i + 1, [next EXCEPT ![key] = res.list])
         IN built(IF legacy THEN leagueResultLegacy(data, key)
                  ELSE leagueResult(data, key))

mergeLeagues(data, legacy) == mergeFrom(data, legacy, 1, EmptySnapshot)

\* fetchScores that empties the snapshot when the fetch fails
fetchScoresClearing(kind, data, liveData, legacy) ==
    LET drop(msg) == [snap |-> EmptySnapshot, installed |-> FALSE, err |-> msg]
        parsed(m) == IF m.threw THEN drop("TypeError")
                     ELSE [snap |-> m.next, installed |-> TRUE, err |-> ""]
    IN IF kind = "neterr" THEN drop("Failed to fetch")
       ELSE IF kind = "http" THEN drop("API error 500")
       ELSE parsed(mergeLeagues(data, legacy))

\* fetchScores that assigns the leagues built so far when a later one raises
fetchScoresPartial(kind, data, liveData, legacy) ==
    LET keep(msg) == [snap |-> liveData, installed |-> FALSE, err |-> msg]
        parsed(m) == [snap |-> m.next, installed |-> ~m.threw,
                      err |-> IF m.threw THEN "TypeError" ELSE ""]
    IN IF kind = "neterr" THEN keep("Failed to fetch")
       ELSE IF kind = "http" THEN keep("API error 500")
       ELSE parsed(mergeLeagues(data, legacy))

\* fetchScores up to and including `LIVE_DATA = next`: the snapshot after the
\* call, whether it was replaced (render() follows), and the error raised.
fetchScores(kind, data, liveData, legacy) ==
    LET keep(msg) == [snap |-> liveData, installed |-> FALSE, err |-> msg]
        parsed(m) == IF m.threw THEN keep("TypeError")
                     ELSE [snap |-> m.next, installed |-> TRUE, err |-> ""]
    IN IF kind = "neterr" THEN keep("Failed to fetch")
       ELSE IF kind = "http" THEN keep("API error 500")
       ELSE parsed(mergeLeagues(data, legacy))

\* ----------------------------------------------------------- persistence
\* The value stored under STORAGE_KEY: t = "absent" (getItem gives null),
\* "empty" (the empty text), "garbage" (text that is no JSON), or the kind of
\* JSON value the text holds: "arr" (v its elements), "str" (v its
\* characters), "num", "obj", "null", "bool".
Stored(t, v) == [t |-> t, v |-> v]

\* loadFollowedSet that keeps the array as it is stored, repeats included
loadFollowedSetAsStored(raw) ==
    IF raw.t \in {"arr", "str"} THEN raw.v ELSE <<>>

\* try { raw ? JSON.parse(raw) : [] ; new Set(arr) } catch { new Set() }
\* new Set of a string iterates its characters; of null, nothing; of a
\* number, an object or a boolean it raises a TypeError.
loadFollowedSet(raw) ==
    IF raw.t \in {"arr", "str"} THEN NewSet(raw.v) ELSE <<>>

\* JSON.stringify([...set])
saveFollowedSet(set) == Stored("arr", set)

\* localStorage.getItem(STORAGE_FILTER_KEY) || "all"; "" stands for no value
loadLeagueFilter(raw) == IF raw = "" THEN "all" ELSE raw

saveLeagueFilter(val) == val

\* ----------------------------------------------------------------- views
RECURSIVE tagged(_, _)
tagged(list, lg) ==
    IF list = <<>> THEN <<>>
    ELSE <<[m |-> Head(list), leagueId |-> lg]>> \o tagged(Tail(list), lg)

RECURSIVE FlatLeagues(_, _)
FlatLeagues(liveData, i) ==
    IF i > Len(LeagueOrder) THEN <<>>
    ELSE tagged(liveData[LeagueOrder[i]], LeagueOrder[i]) \o FlatLeagues(liveData, i + 1)

\* Object.entries(LIVE_DATA).flatMap(...): every match, tagged with its league
allMatches(liveData) == FlatLeagues(liveData, 1)

\* all.find(m => m.id === id) || null, as the list of the first hit
RECURSIVE findIn(_, _)
findIn(all, id) ==
    IF all = <<>> THEN <<>>
    ELSE IF Head(all).m.id = id THEN <<Head(all)>>
    ELSE findIn(Tail(all), id)

findMatchById(liveData, id) == findIn(allMatches(liveData), id)

\* [...followed].map(id => findMatchById(id)).filter(Boolean)
RECURSIVE followedIn(_, _)
followedIn(all, followed) ==
    IF followed = <<>> THEN <<>>
    ELSE findIn(all, Head(followed)) \o followedIn(all, Tail(followed))

followedMatches(liveData, followed) == followedIn(allMatches(liveData), followed)

\* allMatches().filter(m => m.status === "LIVE"), their ids
RECURSIVE liveOf(_)
liveOf(all) ==
    IF all = <<>> THEN <<>>
    ELSE IF Head(all).m.status = "LIVE" THEN <<Head(all).m.id>> \o liveOf(Tail(all))
    ELSE liveOf(Tail(all))

liveIds(liveData) == liveOf(allMatches(liveData))

liveCount(liveData) == Len(liveIds(liveData))

\* getAbbr(m.home) raises a TypeError when m.home is undefined
abbrThrows(matches) == \E i \in 1..Len(matches) : ~matches[i].m.home

\* binds: the click listeners on the element's button. The assignment to
\* innerHTML makes new elements, and the forEach that follows adds one
\* listener to each.
RECURSIVE Entries(_)
Entries(matches) ==
    IF matches = <<>> THEN <<>>
    ELSE <<[id |-> Head(matches).m.id, leagueId |-> Head(matches).leagueId,
            binds |-> 1]>>
         \o Entries(Tail(matches))

\* renderFollowed: the pills of the Followed list. part_000 abbreviates the
\* team names with getAbbr, app.js prints homeTeam || home.
renderFollowed(matches, legacy) ==
    IF legacy /\ abbrThrows(matches)
    THEN [threw |-> TRUE, list |-> <<>>]
    ELSE [threw |-> FALSE, list |-> Entries(matches)]

RECURSIVE StatusOnly(_, _)
StatusOnly(matches, status) ==
    IF matches = <<>> THEN <<>>
    ELSE IF Head(matches).status = status
         THEN <<Head(matches)>> \o StatusOnly(Tail(matches), status)
         ELSE StatusOnly(Tail(matches), status)

\* renderMatchRow: one control per row; part_000 calls getAbbr(m.home)
RECURSIVE renderMatchRows(_, _)
renderMatchRows(list, followed) ==
    IF list = <<>> THEN <<>>
    ELSE <<[id |-> Head(list).id, home |-> Head(list).home,
            ctl |-> IF Head(list).id \in followed THEN "Unfollow" ELSE "Follow",
            binds |-> 1]>>
         \o renderMatchRows(Tail(list), followed)

\* one league section of renderLeagues
renderSection(lg, liveData, followed) ==
    LET shown(live, upcoming) ==
            [lg |-> lg,
             badge |-> IF Len(live) > 0 THEN "live"
                       ELSE IF Len(upcoming) > 0 THEN "upcoming" ELSE "No live games",
             rows |-> renderMatchRows(IF Len(live) > 0 THEN live ELSE upcoming, followed)]
    IN shown(StatusOnly(liveData[lg], "LIVE"), StatusOnly(liveData[lg], "UPCOMING"))

\* filter === "all" ? LEAGUES : LEAGUES.filter(l => l.id === filter)
leaguesToShow(filter) ==
    IF filter = "all" THEN LeagueOrder ELSE FilterSeq(LeagueOrder, {filter})

RECURSIVE renderSections(_, _, _)
renderSections(lgs, liveData, followed) ==
    IF lgs = <<>> THEN <<>>
    ELSE <<renderSection(Head(lgs), liveData, followed)>>
         \o renderSections(Tail(lgs), liveData, followed)

\* renderLeagues: the sections of the leagues to show. In part_000 a row of
\* a match without a home field raises.
renderLeagues(followed, filter, liveData, legacy) ==
    LET done(secs) ==
            IF legacy /\ \E i \in 1..Len(secs) : \E j \in 1..Len(secs[i].rows) :
                             ~secs[i].rows[j].home
            THEN [threw |-> TRUE, list |-> <<>>]
            ELSE [threw |-> FALSE, list |-> secs]
    IN done(renderSections(leaguesToShow(filter), liveData, SeqToSet(followed)))

\* A picture-in-picture window: st = "none" (not opened yet), "open",
\* "closed" (closed, its pagehide not delivered yet), "gone" (pagehide
\* delivered); content: what #pipList shows.
BlankWin == [st |-> "none", content |-> [kind |-> "blank", ids |-> <<>>]]

RECURSIVE idsOf(_)
idsOf(matches) ==
    IF matches = <<>> THEN <<>> ELSE <<Head(matches).m.id>> \o idsOf(Tail(matches))

\* renderPinnedWindow that does not test pipWin.closed
renderPinnedWindowUnchecked(matches, pw, ws) ==
    IF pw = 0 THEN [threw |-> FALSE, wins |-> ws]
    ELSE IF Len(matches) = 0
    THEN [threw |-> FALSE,
          wins |-> [ws EXCEPT ![pw].content = [kind |-> "empty", ids |-> <<>>]]]
    ELSE IF abbrThrows(matches) THEN [threw |-> TRUE, wins |-> ws]
    ELSE [threw |-> FALSE,
          wins |-> [ws EXCEPT ![pw].content = [kind |-> "rows", ids |-> idsOf(matches)]]]

\* renderPinnedWindow: a no-op without an open window; getAbbr(m.home)
\* raises when a followed match has no home field.
renderPinnedWindow(matches, pw, ws) ==
    IF pw = 0 THEN [threw |-> FALSE, wins |-> ws]
    ELSE IF ws[pw].st # "open" THEN [threw |-> FALSE, wins |-> ws]
    ELSE IF Len(matches) = 0
    THEN [threw |-> FALSE,
          wins |-> [ws EXCEPT ![pw].content = [kind |-> "empty", ids |-> <<>>]]]
    ELSE IF abbrThrows(matches) THEN [threw |-> TRUE, wins |-> ws]
    ELSE [threw |-> FALSE,
          wins |-> [ws EXCEPT ![pw].content = [kind |-> "rows", ids |-> idsOf(matches)]]]

\* render() that keeps the pill of a match that had one and binds its
\* button again
renderKeepingPills(liveData, rawFollowed, rawFilter, pw, ws, d, legacy) ==
    LET again(pill) ==
            [pill EXCEPT !.binds =
                 IF \E j \in 1..Len(d.followed) : d.followed[j].id = pill.id
                 THEN 1 + d.followed[CHOOSE j \in 1..Len(d.followed) :
                                        d.followed[j].id = pill.id].binds
                 ELSE 1]
        kept(list) == [i \in 1..Len(list) |-> again(list[i])]
        painted(d1, rf, rl, rp) ==
            IF rf.threw THEN [dom |-> d1, wins |-> ws, threw |-> TRUE]
            ELSE IF rl.threw
            THEN [dom |-> [d1 EXCEPT !.followed = kept(rf.list)], wins |-> ws,
                  threw |-> TRUE]
            ELSE [dom |-> [d1 EXCEPT !.followed = kept(rf.list), !.leagues = rl.list],
                  wins |-> rp.wins, threw |-> rp.threw]
        paint(followed, filter, matches) ==
            painted([d EXCEPT !.active = {b \in FilterButtons : b = filter},
                              !.label = liveCount(liveData)],
                    renderFollowed(matches, legacy),
                    renderLeagues(followed, filter, liveData, legacy),
                    renderPinnedWindow(matches, pw, ws))
        load(followed) ==
            paint(followed, loadLeagueFilter(rawFilter), followedMatches(liveData, followed))
    IN load(loadFollowedSet(rawFollowed))

\* render(): the five painters in order; an exception in one leaves the
\* later ones undone.
render(liveData, rawFollowed, rawFilter, pw, ws, d, legacy) ==
    LET painted(d1, rf, rl, rp) ==
            IF rf.threw THEN [dom |-> d1, wins |-> ws, threw |-> TRUE]
            ELSE IF rl.threw
            THEN [dom |-> [d1 EXCEPT !.followed = rf.list], wins |-> ws, threw |-> TRUE]
            ELSE [dom |-> [d1 EXCEPT !.followed = rf.list, !.leagues = rl.list],
                  wins |-> rp.wins, threw |-> rp.threw]
        paint(followed, filter, matches) ==
            painted([d EXCEPT !.active = {b \in FilterButtons : b = filter},
                              !.label = liveCount(liveData)],
                    renderFollowed(matches, legacy),
                    renderLeagues(followed, filter, liveData, legacy),
                    renderPinnedWindow(matches, pw, ws))
        load(followed) ==
            paint(followed, loadLeagueFilter(rawFilter), followedMatches(liveData, followed))
    IN load(loadFollowedSet(rawFollowed))

\* toggleFollow that adds whatever shouldFollow says
toggleFollowAlwaysAdds(raw, matchId, shouldFollow) ==
    saveFollowedSet(SetAdd(loadFollowedSet(raw), matchId))

\* toggleFollow up to saveFollowedSet: the value stored afterwards
toggleFollow(raw, matchId, shouldFollow) ==
    saveFollowedSet(IF shouldFollow THEN SetAdd(loadFollowedSet(raw), matchId)
                    ELSE SetDelete(loadFollowedSet(raw), matchId))

\* ----------------------------------------------------------------- state
VARIABLES
    rev,            \* "static": src/static/app.js; "legacy": src/unnamed/part_000
    LIVE_DATA,      \* the shared snapshot
    stFollowed,     \* localStorage[STORAGE_KEY]
    stFilter,       \* localStorage[STORAGE_FILTER_KEY] ("": no value)
    dom,            \* what the primary surface shows
    pipWin,         \* the window the script holds (0: null)
    wins,           \* the picture-in-picture windows
    closeDisabled,  \* btnClosePin.disabled
    pipSupported,   \* "documentPictureInPicture" in window
    openPending,    \* a requestWindow() promise is pending
    inflight,       \* the fetches in flight, oldest first; passed: a fetch
                    \* started later has replaced the snapshot meanwhile
    timerOn,        \* setInterval(run, POLL_MS) was reached
    toastMsg,       \* toastEl.textContent
    staleWrite,     \* history: the poll that resolved last was one a later
                    \* fetch had passed, and it replaced the snapshot
    alertMsg        \* history: the text of the last alert() shown ("": none)

vars == <<rev, LIVE_DATA, stFollowed, stFilter, dom, pipWin, wins, closeDisabled,
          pipSupported, openPending, inflight, timerOn, toastMsg, staleWrite,
          alertMsg>>

Legacy == rev = "legacy"

BlankDom == [active |-> {}, label |-> 0, followed |-> <<>>, leagues |-> <<>>]

\* what a previous session, or anything else, may have left under STORAGE_KEY
InitStored ==
    {Stored("absent", <<>>), Stored("garbage", <<>>), Stored("str", <<"m", "1">>),
     Stored("num", <<>>), Stored("obj", <<>>), Stored("arr", <<"m1", "m9", "m1">>)}

\* and under STORAGE_FILTER_KEY
InitFilters == {"", "zz"}

\* The script has run to its end: render(), then startPolling() up to the
\* first await, the initial fetch in flight.
InitWith(revs, stored, filters, pip) ==
    /\ rev \in revs
    /\ LIVE_DATA = EmptySnapshot
    /\ stFollowed \in stored
    /\ stFilter \in filters
    /\ pipWin = 0
    /\ wins = [w \in 1..MaxWins |-> BlankWin]
    /\ closeDisabled = TRUE
    /\ pipSupported \in pip
    /\ openPending = FALSE
    /\ dom = render(EmptySnapshot, stFollowed, stFilter, 0, wins, BlankDom, Legacy).dom
    /\ inflight = <<[passed |-> FALSE]>>
    /\ timerOn = FALSE
    /\ toastMsg = ""
    /\ staleWrite = FALSE
    /\ alertMsg = ""

\* a first visit (nothing stored), with and without the capability
Init == InitWith({"static"}, {Stored("absent", <<>>)}, {""}, BOOLEAN)

\* a browser without Document Picture-in-Picture, any storage
InitNoPip == InitWith({"static"}, InitStored, InitFilters, {FALSE})

\* what the page itself leaves under STORAGE_KEY
InitStoredOwn == {Stored("absent", <<>>), Stored("arr", <<"m1", "m9">>)}

\* a browser without Document Picture-in-Picture, the script being either
\* revision, storage as the page leaves it
InitNoPipAll == InitWith({"static", "legacy"}, InitStoredOwn, {""}, {FALSE})

\* ---------------------------------------------------------------- poller
RemoveAt(s, i) == SubSeq(s, 1, i - 1) \o SubSeq(s, i + 1, Len(s))

\* run(), from the point where the fetch i has settled: r is what
\* fetchScores has done up to `LIVE_DATA = next`. render() follows when the
\* snapshot was replaced; the catch reports whatever was raised (app.js:
\* console.error and a toast; part_000: console.warn only).
run(i, r) ==
    LET caught(err) == IF err # "" /\ ~Legacy THEN err ELSE toastMsg
        rendered(rr) ==
            /\ LIVE_DATA' = r.snap
            /\ dom' = rr.dom
            /\ wins' = rr.wins
            /\ toastMsg' = caught(IF rr.threw THEN "TypeError" ELSE "")
            /\ inflight' = RemoveAt([j \in 1..Len(inflight) |->
                                       IF j < i THEN [passed |-> TRUE]
                                       ELSE inflight[j]], i)
            /\ staleWrite' = inflight[i].passed
    IN IF r.installed
       THEN rendered(render(r.snap, stFollowed, stFilter, pipWin, wins, dom, Legacy))
       ELSE /\ LIVE_DATA' = r.snap
            /\ toastMsg' = caught(r.err)
            /\ inflight' = RemoveAt(inflight, i)
            /\ staleWrite' = FALSE
            /\ UNCHANGED <<dom, wins>>

\* ResolveFetch with a poller that drops the response of a fetch that a
\* later one has passed
ResolveFetchLatestOnly(i, kind, f) ==
    /\ i \in 1..Len(inflight)
    /\ kind # "ok" => f = 1
    /\ IF inflight[i].passed
       THEN /\ inflight' = RemoveAt(inflight, i)
            /\ staleWrite' = FALSE
            /\ UNCHANGED <<LIVE_DATA, dom, wins, toastMsg>>
       ELSE run(i, fetchScores(kind, Feeds[f], LIVE_DATA, Legacy))
    /\ timerOn' = TRUE
    /\ UNCHANGED <<rev, alertMsg, stFollowed, stFilter, pipWin, closeDisabled, pipSupported,
                   openPending>>

\* ResolveFetch with a poller that drops from storage the followed ids that
\* the snapshot no longer holds
ResolveFetchPruning(i, kind, f) ==
    /\ i \in 1..Len(inflight)
    /\ kind # "ok" => f = 1
    /\ run(i, fetchScores(kind, Feeds[f], LIVE_DATA, Legacy))
    /\ timerOn' = TRUE
    /\ stFollowed' =
           saveFollowedSet(FilterSeq(loadFollowedSet(stFollowed),
                                     {x \in {"m1", "m2"} : findMatchById(LIVE_DATA', x) # <<>>}))
    /\ UNCHANGED <<rev, alertMsg, stFilter, pipWin, closeDisabled, pipSupported, openPending>>

\* The fetch i resolves as `kind` with body f and its run() comes to its
\* end. startPolling awaits the first run(), which never rejects, and then
\* reaches setInterval.
ResolveFetch(i, kind, f) ==
    /\ i \in 1..Len(inflight)
    /\ kind # "ok" => f = 1
    /\ run(i, fetchScores(kind, Feeds[f], LIVE_DATA, Legacy))
    /\ timerOn' = TRUE
    /\ UNCHANGED <<rev, alertMsg, stFollowed, stFilter, pipWin, closeDisabled, pipSupported,
                   openPending>>

\* Tick of a poller that stops once run() has reported a failure
TickUnlessFailed ==
    /\ timerOn
    /\ toastMsg \notin {"Failed to fetch", "API error 500", "TypeError"}
    /\ Len(inflight) < MaxInflight
    /\ inflight' = Append(inflight, [passed |-> FALSE])
    /\ UNCHANGED <<rev, alertMsg, LIVE_DATA, stFollowed, stFilter, dom, pipWin, wins,
                   closeDisabled, pipSupported, openPending, timerOn, toastMsg,
                   staleWrite>>

\* The interval timer fires: run() starts another fetch, whether or not
\* earlier ones have resolved.
Tick ==
    /\ timerOn
    /\ Len(inflight) < MaxInflight
    /\ inflight' = Append(inflight, [passed |-> FALSE])
    /\ UNCHANGED <<rev, alertMsg, LIVE_DATA, stFollowed, stFilter, dom, pipWin, wins,
                   closeDisabled, pipSupported, openPending, timerOn, toastMsg,
                   staleWrite>>

\* ---------------------------------------------------------- user actions
\* the ids of the rows whose button is ctl ("Follow": data-follow,
\* "Unfollow": data-unfollow)
RowIds(ctl) ==
    UNION {{dom.leagues[i].rows[j].id :
               j \in {k \in 1..Len(dom.leagues[i].rows) : dom.leagues[i].rows[k].ctl = ctl}} :
           i \in 1..Len(dom.leagues)}

\* the ids of the pills of the Followed list (their x buttons)
PillIds == {dom.followed[i].id : i \in 1..Len(dom.followed)}

\* A handler's closing render(): the surfaces afterwards. An exception it
\* raises leaves the handler; nothing catches it.
Rerender(rawFollowed, rawFilter, pw, ws) ==
    render(LIVE_DATA, rawFollowed, rawFilter, pw, ws, dom, Legacy)

Painted(rr) ==
    /\ dom' = rr.dom
    /\ wins' = rr.wins

\* Toggled of a handler that stores and does not render
ToggledUnpainted(raw) ==
    /\ stFollowed' = raw
    /\ UNCHANGED <<dom, wins>>

\* What a handler that has stored `raw` under STORAGE_KEY leaves after its
\* closing render()
Toggled(raw) ==
    /\ stFollowed' = raw
    /\ Painted(Rerender(raw, stFilter, pipWin, wins))

\* FollowClick of a handler that adds to the set its last render painted
\* (the pills), not to the stored one
FollowClickFromPainted(id) ==
    /\ id \in RowIds("Follow")
    /\ Toggled(saveFollowedSet(SetAdd([i \in 1..Len(dom.followed) |-> dom.followed[i].id],
                                       id)))
    /\ UNCHANGED <<rev, alertMsg, LIVE_DATA, stFilter, pipWin, closeDisabled, pipSupported,
                   openPending, inflight, timerOn, toastMsg, staleWrite>>

\* A click on a row's Follow button: toggleFollow(id, true)
FollowClick(id) ==
    /\ id \in RowIds("Follow")
    /\ Toggled(toggleFollow(stFollowed, id, TRUE))
    /\ UNCHANGED <<rev, alertMsg, LIVE_DATA, stFilter, pipWin, closeDisabled, pipSupported,
                   openPending, inflight, timerOn, toastMsg, staleWrite>>

\* A click on a row's Unfollow button or on a pill's x: toggleFollow(id, false)
UnfollowClick(id) ==
    /\ id \in RowIds("Unfollow") \cup PillIds
    /\ Toggled(toggleFollow(stFollowed, id, FALSE))
    /\ UNCHANGED <<rev, alertMsg, LIVE_DATA, stFilter, pipWin, closeDisabled, pipSupported,
                   openPending, inflight, timerOn, toastMsg, staleWrite>>

\* the buttons of the league filter that get clicked
ClickedFilters == {"all", "pl"}

\* FilterClick that also unfollows the matches of the leagues the new filter
\* hides
FilterClickDropsHidden(val) ==
    LET shown == UNION {SeqToSet(LIVE_DATA[lg]) : lg \in SeqToSet(leaguesToShow(val))}
        raw == saveFollowedSet(FilterSeq(loadFollowedSet(stFollowed),
                                         {m.id : m \in shown}))
    IN /\ val \in FilterButtons
       /\ stFilter' = saveLeagueFilter(val)
       /\ stFollowed' = raw
       /\ Painted(Rerender(raw, saveLeagueFilter(val), pipWin, wins))
       /\ UNCHANGED <<rev, alertMsg, LIVE_DATA, pipWin, closeDisabled, pipSupported,
                      openPending, inflight, timerOn, toastMsg, staleWrite>>

\* A click on a button of the league filter
FilterClick(val) ==
    /\ val \in FilterButtons
    /\ stFilter' = saveLeagueFilter(val)
    /\ Painted(Rerender(stFollowed, saveLeagueFilter(val), pipWin, wins))
    /\ UNCHANGED <<rev, alertMsg, LIVE_DATA, stFollowed, pipWin, closeDisabled, pipSupported,
                   openPending, inflight, timerOn, toastMsg, staleWrite>>

RECURSIVE AddAll(_, _)
AddAll(set, ids) == IF ids = <<>> THEN set ELSE AddAll(SetAdd(set, Head(ids)), Tail(ids))

\* "Follow all live" that follows every match of the snapshot when none is
\* live
FollowAllLiveOrAny ==
    LET clicked(live) ==
            IF Len(live) = 0
            THEN /\ toastMsg' = "No live matches right now"
                 /\ Toggled(saveFollowedSet(AddAll(loadFollowedSet(stFollowed),
                                                   idsOf(allMatches(LIVE_DATA)))))
            ELSE /\ Toggled(saveFollowedSet(AddAll(loadFollowedSet(stFollowed), live)))
                 /\ toastMsg' = "Following " \o ToString(Len(live)) \o " live match"
                                \o (IF Len(live) = 1 THEN "" ELSE "es")
    IN /\ clicked(liveIds(LIVE_DATA))
       /\ UNCHANGED <<rev, alertMsg, LIVE_DATA, stFilter, pipWin, closeDisabled, pipSupported,
                      openPending, inflight, timerOn, staleWrite>>

\* "Follow all live"
FollowAllLive ==
    LET clicked(live) ==
            IF Len(live) = 0
            THEN /\ toastMsg' = "No live matches right now"
                 /\ UNCHANGED <<stFollowed, dom, wins>>
            ELSE /\ Toggled(saveFollowedSet(AddAll(loadFollowedSet(stFollowed), live)))
                 /\ toastMsg' = "Following " \o ToString(Len(live)) \o " live match"
                                \o (IF Len(live) = 1 THEN "" ELSE "es")
    IN /\ clicked(liveIds(LIVE_DATA))
       /\ UNCHANGED <<rev, alertMsg, LIVE_DATA, stFilter, pipWin, closeDisabled, pipSupported,
                      openPending, inflight, timerOn, staleWrite>>

\* "Clear" that also asks the feed again
ClearFollowsRefetching ==
    /\ Toggled(saveFollowedSet(<<>>))
    /\ toastMsg' = "Cleared followed matches"
    /\ inflight' = IF Len(inflight) < MaxInflight
                   THEN Append(inflight, [passed |-> FALSE]) ELSE inflight
    /\ UNCHANGED <<rev, alertMsg, LIVE_DATA, stFilter, pipWin, closeDisabled, pipSupported,
                   openPending, timerOn, staleWrite>>

\* "Clear"
ClearFollows ==
    /\ Toggled(saveFollowedSet(<<>>))
    /\ toastMsg' = "Cleared followed matches"
    /\ UNCHANGED <<rev, alertMsg, LIVE_DATA, stFilter, pipWin, closeDisabled, pipSupported,
                   openPending, inflight, timerOn, staleWrite>>

\* ------------------------------------------------- picture-in-picture
FreeWins == {w \in 1..MaxWins : wins[w].st = "none"}

\* a window that is closed shows nothing any more
Shut(win) == [st |-> "closed", content |-> BlankWin.content]

\* the texts of the two alerts of the Open handler
AlertUnsupported == "Document PiP not supported. Use Chrome."

AlertNotOpened == "Could not open pinned window."

\* A click on "Open": without the capability an alert and nothing else;
\* with it the handler waits for requestWindow().
OpenClick ==
    /\ IF ~pipSupported
       THEN /\ alertMsg' = AlertUnsupported
            /\ UNCHANGED openPending
       ELSE /\ ~openPending
            /\ FreeWins # {}
            /\ openPending' = TRUE
            /\ UNCHANGED alertMsg
    /\ UNCHANGED <<rev, LIVE_DATA, stFollowed, stFilter, dom, pipWin, wins,
                   closeDisabled, pipSupported, inflight, timerOn, toastMsg,
                   staleWrite>>

\* OpenResolve of a handler that enables Close before it awaits the window
OpenResolveCloseEnabled(ok) ==
    /\ openPending
    /\ openPending' = FALSE
    /\ closeDisabled' = FALSE
    /\ IF ~ok
       THEN /\ alertMsg' = AlertNotOpened
            /\ UNCHANGED <<dom, pipWin, wins>>
       ELSE LET w == CHOOSE x \in FreeWins : \A y \in FreeWins : x <= y
                ws == [x \in 1..MaxWins |->
                         IF x = w THEN [BlankWin EXCEPT !.st = "open"]
                         ELSE IF wins[x].st = "open" THEN Shut(wins[x])
                         ELSE wins[x]]
                opened(rr) ==
                    /\ Painted(rr)
                    /\ alertMsg' = IF rr.threw THEN AlertNotOpened ELSE alertMsg
            IN /\ pipWin' = w
               /\ opened(Rerender(stFollowed, stFilter, w, ws))
    /\ UNCHANGED <<rev, LIVE_DATA, stFollowed, stFilter, pipSupported, inflight,
                   timerOn, toastMsg, staleWrite>>

\* requestWindow() settles. Rejected: the catch alerts. Fulfilled: the
\* browser has closed a window that was still open, the handler keeps the
\* new window, fills it, listens for its pagehide, enables Close and
\* renders; an exception of that render is caught and alerts too.
OpenResolve(ok) ==
    /\ openPending
    /\ openPending' = FALSE
    /\ IF ~ok
       THEN /\ alertMsg' = AlertNotOpened
            /\ UNCHANGED <<dom, pipWin, wins, closeDisabled>>
       ELSE LET w == CHOOSE x \in FreeWins : \A y \in FreeWins : x <= y
                ws == [x \in 1..MaxWins |->
                         IF x = w THEN [BlankWin EXCEPT !.st = "open"]
                         ELSE IF wins[x].st = "open" THEN Shut(wins[x])
                         ELSE wins[x]]
                opened(rr) ==
                    /\ Painted(rr)
                    /\ alertMsg' = IF rr.threw THEN AlertNotOpened ELSE alertMsg
            IN /\ pipWin' = w
               /\ closeDisabled' = FALSE
               /\ opened(Rerender(stFollowed, stFilter, w, ws))
    /\ UNCHANGED <<rev, LIVE_DATA, stFollowed, stFilter, pipSupported, inflight,
                   timerOn, toastMsg, staleWrite>>

\* The user, or the browser, closes the window w.
HostClose(w) ==
    /\ w \in 1..MaxWins
    /\ wins[w].st = "open"
    /\ wins' = [wins EXCEPT ![w] = Shut(wins[w])]
    /\ UNCHANGED <<rev, alertMsg, LIVE_DATA, stFollowed, stFilter, dom, pipWin, closeDisabled,
                   pipSupported, openPending, inflight, timerOn, toastMsg,
                   staleWrite>>

\* The pagehide of the closed window w is delivered to its listener.
PageHide(w) ==
    /\ w \in 1..MaxWins
    /\ wins[w].st = "closed"
    /\ wins' = [wins EXCEPT ![w].st = "gone"]
    /\ pipWin' = 0
    /\ closeDisabled' = TRUE
    /\ UNCHANGED <<rev, alertMsg, LIVE_DATA, stFollowed, stFilter, dom, pipSupported,
                   openPending, inflight, timerOn, toastMsg, staleWrite>>

\* CloseClick of a handler that reports the close in the toast
CloseClickToasting ==
    /\ wins' = IF pipWin # 0 /\ wins[pipWin].st = "open"
               THEN [wins EXCEPT ![pipWin] = Shut(wins[pipWin])] ELSE wins
    /\ pipWin' = 0
    /\ closeDisabled' = TRUE
    /\ toastMsg' = "Pinned window closed"
    /\ UNCHANGED <<rev, alertMsg, LIVE_DATA, stFollowed, stFilter, dom, pipSupported,
                   openPending, inflight, timerOn, staleWrite>>

\* A click on "Close"
CloseClick ==
    /\ wins' = IF pipWin # 0 /\ wins[pipWin].st = "open"
               THEN [wins EXCEPT ![pipWin] = Shut(wins[pipWin])] ELSE wins
    /\ pipWin' = 0
    /\ closeDisabled' = TRUE
    /\ UNCHANGED <<rev, alertMsg, LIVE_DATA, stFollowed, stFilter, dom, pipSupported,
                   openPending, inflight, timerOn, toastMsg, staleWrite>>

\* --------------------------------------------------------- specification
Next ==
    \/ \E i \in 1..MaxInflight, kind \in ResponseKinds, f \in FeedIds :
          ResolveFetch(i, kind, f)
    \/ Tick
    \/ \E id \in {"m1", "m2"} : FollowClick(id)
    \/ \E id \in {"m1", "m2"} : UnfollowClick(id)
    \/ \E val \in ClickedFilters : FilterClick(val)
    \/ FollowAllLive
    \/ ClearFollows
    \/ OpenClick
    \/ \E ok \in BOOLEAN : OpenResolve(ok)
    \/ \E w \in 1..MaxWins : HostClose(w)
    \/ \E w \in 1..MaxWins : PageHide(w)
    \/ CloseClick

Spec == Init /\ [][Next]_vars

\* Without the capability no window is ever requested, closed or hidden,
\* and a click on Open only alerts; here the user leaves Open alone.
NextNoPip ==
    \/ \E i \in 1..MaxInflight, kind \in ResponseKinds, f \in FeedIds :
          ResolveFetch(i, kind, f)
    \/ Tick
    \/ \E id \in {"m1", "m2"} : FollowClick(id)
    \/ \E id \in {"m1", "m2"} : UnfollowClick(id)
    \/ \E val \in ClickedFilters : FilterClick(val)
    \/ FollowAllLive
    \/ ClearFollows
    \/ CloseClick

SpecNoPip == InitNoPip /\ [][NextNoPip]_vars

SpecNoPipAll == InitNoPipAll /\ [][NextNoPip]_vars

\* a fetch in flight is answered with a well-formed body (body 1)
PollOK == \E i \in 1..MaxInflight : ResolveFetch(i, "ok", 1)

\* setInterval keeps firing: weak fairness of Tick
FairNoPipAll == SpecNoPipAll /\ WF_vars(Tick)

\* The timer fires after the previous fetch was answered (a feed that
\* answers within POLL_MS): no two fetches overlap.
TickIdle ==
    /\ inflight = <<>>
    /\ Tick

\* The page with its panel, first visit, the feed answering within POLL_MS.
NextPip ==
    \/ \E kind \in ResponseKinds, f \in FeedIds : ResolveFetch(1, kind, f)
    \/ TickIdle
    \/ \E id \in {"m1", "m2"} : FollowClick(id)
    \/ \E id \in {"m1", "m2"} : UnfollowClick(id)
    \/ \E val \in ClickedFilters : FilterClick(val)
    \/ FollowAllLive
    \/ ClearFollows
    \/ OpenClick
    \/ \E ok \in BOOLEAN : OpenResolve(ok)
    \/ \E w \in 1..MaxWins : HostClose(w)
    \/ \E w \in 1..MaxWins : PageHide(w)
    \/ CloseClick

SpecPip == Init /\ [][NextPip]_vars

\* ------------------------------------------------------------ properties
\* the merges of the bodies of Feeds, one revision
RECURSIVE MergedFrom(_, _)
MergedFrom(f, legacy) ==
    IF f > Len(Feeds) THEN <<>>
    ELSE <<mergeLeagues(Feeds[f], legacy)>> \o MergedFrom(f + 1, legacy)

MergedStatic == MergedFrom(1, FALSE)

MergedLegacy == MergedFrom(1, TRUE)

\* the snapshot a successful poll of body f installs
SnapshotOf(f) == IF Legacy THEN MergedLegacy[f].next ELSE MergedStatic[f].next

\* the body f can be merged without an exception
Merges(f) == IF Legacy THEN ~MergedLegacy[f].threw ELSE ~MergedStatic[f].threw

\* the step ends a poll cycle: only ResolveFetch takes a fetch out of flight
PollEnds == Len(inflight') < Len(inflight)

\* the ids of a list of raw records or of match models, in order
RECURSIVE IdsOf(_)
IdsOf(list) == IF list = <<>> THEN <<>> ELSE <<Head(list).id>> \o IdsOf(Tail(list))

\* the ids of the persisted Followed Set
FollowedIds == SeqToSet(loadFollowedSet(stFollowed))

\* the ids of the matches of a snapshot
SnapshotIds(liveData) == UNION {SeqToSet(IdsOf(liveData[k])) : k \in LeagueIds}

\* C1: a poll cycle whose fetch fails (transport failure or a non-success
\* status) leaves the snapshot as it was, reports the failure in the toast,
\* and paints nothing: the primary surface and the windows stay as they were.
C1_FailedPollKeepsSnapshot ==
    [][\A i \in 1..MaxInflight, kind \in {"neterr", "http"} :
          ResolveFetch(i, kind, 1) =>
              /\ LIVE_DATA' = LIVE_DATA
              /\ dom' = dom
              /\ wins' = wins
              /\ toastMsg' = IF kind = "neterr" THEN "Failed to fetch"
                             ELSE "API error 500"]_vars

\* a failure was reported while a snapshot with matches was installed and
\* followed matches were shown
C1_Witness ==
    /\ toastMsg = "API error 500"
    /\ LIVE_DATA = SnapshotOf(1)
    /\ Len(dom.followed) > 0

\* C2: in every reachable state the snapshot is the initial empty one or the
\* complete merge of one response: never the leagues of a merge that was
\* given up half way, never leagues of two responses.
C2_SnapshotIsOnePoll ==
    \/ LIVE_DATA = EmptySnapshot
    \/ \E f \in FeedIds : Merges(f) /\ LIVE_DATA = SnapshotOf(f)

\* a merge was given up half way (body 5 raises in its second league) and
\* the snapshot is still the whole merge of body 2
C2_Witness ==
    /\ toastMsg = "TypeError"
    /\ ~Merges(5)
    /\ LIVE_DATA = SnapshotOf(2)

\* C3: whichever fetch in flight resolves, first or last started, with a
\* body that merges, its snapshot is the one installed, also when a fetch
\* started later has already installed its own; the other fetches stay in
\* flight, none is cancelled.
C3_LastWriteWins ==
    [][PollEnds =>
          \A i \in 1..MaxInflight, f \in FeedIds :
              \/ /\ LIVE_DATA' = SnapshotOf(f)
                 /\ Len(inflight') = Len(inflight) - 1
              \/ ~Merges(f)
              \/ ~ResolveFetch(i, "ok", f)]_vars

\* the fetch started first resolved last, after the later one had installed
\* its snapshot, and its own snapshot (of body 3) replaced it
C3_Witness ==
    /\ staleWrite
    /\ inflight = <<>>
    /\ LIVE_DATA = SnapshotOf(3)
    /\ LIVE_DATA # EmptySnapshot

\* C4: the poll loop survives failures. The feed answers every fetch (again
\* and again none is left in flight) and, as long as fetches keep being
\* issued, keeps giving well-formed answers among the failures; then again
\* and again the snapshot of a well-formed answer is installed and painted.
C4_PollLoopSurvives ==
    ([]<>(inflight = <<>>) /\ ([]<><<Tick>>_vars => []<><<PollOK>>_vars))
        => []<>(LIVE_DATA = SnapshotOf(1) /\ dom.label = liveCount(LIVE_DATA))

\* a failure was reported, nothing has been installed, and the timer has
\* since issued fetches again
C4_Witness ==
    /\ timerOn
    /\ toastMsg = "Failed to fetch"
    /\ LIVE_DATA = EmptySnapshot
    /\ Len(inflight) = 2

\* the list the rule picks for league k of body f: live when it is a
\* non-empty array, else upcoming when it is a list, else nothing
Chosen(f, k) ==
    LET b == Feeds[f].v[k]
    IN IF Feeds[f].leagues # "obj" \/ b.t # "obj" THEN <<>>
       ELSE IF b.live.t = "arr" /\ b.live.v # <<>> THEN b.live.v
       ELSE IF b.upcoming.t = "arr" THEN b.upcoming.v
       ELSE <<>>

\* C5: the snapshot a poll installs holds, for every league, the records of
\* the live list when that is a non-empty array, else those of the upcoming
\* list when there is one, else none; in the feed's order, each league only
\* its own. Both revisions.
C5_MergeRule ==
    [][PollEnds =>
          \A i \in 1..MaxInflight, f \in FeedIds :
              \/ \A k \in LeagueIds : IdsOf(LIVE_DATA'[k]) = IdsOf(Chosen(f, k))
              \/ ~Merges(f)
              \/ ~ResolveFetch(i, "ok", f)]_vars

\* body 1 installed: pl has live and upcoming records and shows the live
\* one, ch has an empty live list and shows the upcoming one
C5_Witness ==
    /\ LIVE_DATA = SnapshotOf(1)
    /\ IdsOf(LIVE_DATA.pl) = <<"m1">>
    /\ IdsOf(LIVE_DATA.ch) = <<"m2">>
    /\ LIVE_DATA.l2 = <<>>

\* league k of body f has no bucket, a bucket that is no object, or a
\* bucket whose live or upcoming is no array
BucketBroken(f, k) ==
    \/ Feeds[f].leagues # "obj"
    \/ Feeds[f].v[k].t # "obj"
    \/ Feeds[f].v[k].live.t # "arr"
    \/ Feeds[f].v[k].upcoming.t # "arr"

\* the bodies with a broken bucket whose lists hold proper records
BrokenBodies ==
    {f \in FeedIds :
        /\ \E k \in LeagueIds : BucketBroken(f, k)
        /\ \A k \in LeagueIds : \A j \in 1..Len(Chosen(f, k)) : ~Chosen(f, k)[j].nul}

\* C6: a successful response with a missing or malformed bucket still
\* installs a snapshot: what is no array counts as an empty list, and every
\* league gets the list the rule picks from what is left.
C6_MalformedBucketDegrades ==
    [][PollEnds =>
          \A i \in 1..MaxInflight, f \in BrokenBodies :
              \/ \A k \in LeagueIds : IdsOf(LIVE_DATA'[k]) = IdsOf(Chosen(f, k))
              \/ ~ResolveFetch(i, "ok", f)]_vars

\* the ids of the pills of the Followed list, in order
PillSeq == IdsOf(dom.followed)

\* C7: the Followed list shows one pill, and only one, for every id of the
\* persisted Followed Set that the snapshot holds, and nothing for the
\* other ids.
C7_FollowedListExact ==
    /\ SeqToSet(PillSeq) = FollowedIds \cap SnapshotIds(LIVE_DATA)
    /\ Cardinality(SeqToSet(PillSeq)) = Len(PillSeq)

\* m1 (stored twice) and m9 are followed, the snapshot holds m1 and not m9:
\* one pill, for m1
C7_Witness ==
    /\ stFollowed = Stored("arr", <<"m1", "m9", "m1">>)
    /\ "m9" \notin SnapshotIds(LIVE_DATA)
    /\ PillSeq = <<"m1">>

\* C8: a step that ends a poll, failed or not, and a step that only
\* renders (a filter click) leave the persisted Followed Set as it was; and
\* after a poll every followed id the new snapshot holds has its pill.
C8_PollsKeepFollowedSet ==
    [][/\ PollEnds =>
             /\ stFollowed' = stFollowed
             /\ \A x \in FollowedIds :
                    x \in SnapshotIds(LIVE_DATA') => x \in SeqToSet(IdsOf(dom'.followed))
       /\ stFilter' # stFilter => stFollowed' = stFollowed]_vars

\* m2, followed from its row, is no longer in the snapshot (body 3 was
\* installed) and is still stored; it has no pill
C8_Witness ==
    /\ "m2" \in FollowedIds
    /\ LIVE_DATA = SnapshotOf(3)
    /\ "m2" \notin SnapshotIds(LIVE_DATA)
    /\ "m2" \notin SeqToSet(PillSeq)

\* the ids a follow or an unfollow may name
MatchIds == {"m1", "m2", "m9"}

\* what is stored after following x and then unfollowing x
RoundTrip(raw, x) == toggleFollow(toggleFollow(raw, x, TRUE), x, FALSE)

\* C9 as stated: for every stored Followed Set and every id x, following x
\* and then unfollowing x leaves the set as it was.
C9_RoundTripAnyId ==
    \A x \in MatchIds :
        SeqToSet(loadFollowedSet(RoundTrip(stFollowed, x))) = FollowedIds

\* C9, for ids not followed yet: for every stored Followed Set and every id
\* x not in it, following x and then unfollowing x leaves the set as it was.
C9_RoundTripNewId ==
    \A x \in MatchIds \ FollowedIds :
        SeqToSet(loadFollowedSet(RoundTrip(stFollowed, x))) = FollowedIds

\* a set written by the handlers that holds m2 and m9 and not m1
C9_Witness ==
    /\ stFollowed.t = "arr"
    /\ FollowedIds = {"m2", "m9"}
    /\ SeqToSet(loadFollowedSet(toggleFollow(stFollowed, "m1", TRUE))) = {"m1", "m2", "m9"}

\* C10 as stated: a stored value that is absent or is no JSON array loads
\* as the empty set.
C10_MalformedLoadsEmpty ==
    stFollowed.t # "arr" => loadFollowedSet(stFollowed) = <<>>

\* the league ids of the sections the primary surface shows, in order
RECURSIVE LgsOf(_)
LgsOf(secs) == IF secs = <<>> THEN <<>> ELSE <<Head(secs).lg>> \o LgsOf(Tail(secs))

SectionIds == LgsOf(dom.leagues)

\* C11 as stated: when the persisted league filter is unset or is none of
\* the filter values, the render uses "all": the "all" button is the active
\* one and every league has its section, in the fixed order.
C11_InvalidFilterShowsAll ==
    stFilter \notin FilterButtons =>
        /\ dom.active = {"all"}
        /\ SectionIds = LeagueOrder

\* what #pipList of the window the script holds shows
PanelContent == IF pipWin = 0 THEN BlankWin.content ELSE wins[pipWin].content

\* C12: a step that changes the league filter changes the league sections
\* and nothing else: "all" shows every league in the fixed order, a league
\* id that league's section alone, each section being what the snapshot and
\* the Followed Set make of its league; the Followed list, the content of
\* the panel, the persisted Followed Set and the snapshot stay as they were.
C12_FilterChangesSectionsOnly ==
    [][stFilter' # stFilter =>
          /\ FollowedIds' = FollowedIds
          /\ LIVE_DATA' = LIVE_DATA
          /\ dom'.followed = dom.followed
          /\ wins' = wins
          /\ SectionIds' = IF stFilter' = "all" THEN LeagueOrder ELSE <<stFilter'>>
          /\ \A i \in 1..Len(dom'.leagues) :
                 dom'.leagues[i] = renderSection(dom'.leagues[i].lg, LIVE_DATA, FollowedIds)]_vars

\* the filter is "pl" and only that section is shown, while m1 (of pl) and
\* m2 (of ch) are both in the Followed list and in the open panel
C12_Witness ==
    /\ stFilter = "pl"
    /\ SectionIds = <<"pl">>
    /\ IdsOf(LIVE_DATA.ch) = <<"m2">>
    /\ SeqToSet(PillSeq) = {"m1", "m2"}
    /\ PanelContent = [kind |-> "rows", ids |-> PillSeq]

\* C13: "Follow all live" clicked while the snapshot holds no match in LIVE
\* status raises the notification and leaves the persisted Followed Set,
\* the filter and the snapshot as they were.
C13_FollowAllLiveNoneLive ==
    [][(liveCount(LIVE_DATA) = 0 /\ FollowAllLive) =>
          /\ toastMsg' = "No live matches right now"
          /\ stFollowed' = stFollowed
          /\ stFilter' = stFilter
          /\ LIVE_DATA' = LIVE_DATA]_vars

\* the notification was raised over a snapshot that holds matches, none of
\* them live, and nothing is followed
C13_Witness ==
    /\ toastMsg = "No live matches right now"
    /\ SnapshotIds(LIVE_DATA) # {}
    /\ liveCount(LIVE_DATA) = 0
    /\ FollowedIds = {}
    /\ stFollowed.t = "absent"

\* the rows of the league sections the primary surface shows
DisplayedRows ==
    UNION {SeqToSet(dom.leagues[i].rows) : i \in 1..Len(dom.leagues)}

\* C14: every displayed match row carries one control, and it is "Unfollow"
\* when the row's match id is in the persisted Followed Set and "Follow"
\* when it is not, whatever follows, unfollows, bulk follows, clears, filter
\* clicks and polls came before.
C14_RowControlMatchesStore ==
    \A row \in DisplayedRows :
        /\ row.ctl \in {"Follow", "Unfollow"}
        /\ row.ctl = "Unfollow" <=> row.id \in FollowedIds

\* rows of both kinds are displayed after a follow: m1, stored by the
\* handler, has Unfollow, and m2 has Follow
C14_Witness ==
    /\ stFollowed = saveFollowedSet(<<"m1">>)
    /\ "m1" \in RowIds("Unfollow")
    /\ "m2" \in RowIds("Follow")

\* the adapter is OPEN: the script holds a window that is not closed
PanelOpen == pipWin # 0 /\ wins[pipWin].st = "open"

\* C15 as stated: whenever the panel is open, the matches it shows are the
\* matches the primary Followed list shows.
C15_PanelShowsFollowedList ==
    PanelOpen => SeqToSet(PanelContent.ids) = SeqToSet(PillSeq)

\* the adapter is CLOSED: no window held, Close disabled
PanelClosed == pipWin = 0 /\ closeDisabled

\* C16: a click on Open without the capability, and a window request that
\* is rejected, alert the user and change nothing else: a CLOSED adapter
\* stays CLOSED, the reference, the Close control, the windows, both
\* surfaces, the snapshot, the Followed Set and the filter stay as they were.
C16_FailedOpenChangesNothing ==
    [][((~pipSupported /\ OpenClick) \/ OpenResolve(FALSE)) =>
          /\ alertMsg' = IF pipSupported THEN AlertNotOpened ELSE AlertUnsupported
          /\ PanelClosed => PanelClosed'
          /\ UNCHANGED <<pipWin, closeDisabled, wins, dom, LIVE_DATA, stFollowed,
                         stFilter>>]_vars

\* a window request was rejected: no window was ever opened, the adapter is
\* CLOSED, and the follows made before are still there
C16_Witness ==
    /\ alertMsg = AlertNotOpened
    /\ ~openPending
    /\ \A w \in 1..MaxWins : wins[w].st = "none"
    /\ PanelClosed
    /\ FollowedIds = {"m1"}
    /\ PillSeq = <<"m1">>

\* the reference is stale: the window the script holds was closed by the
\* host and its pagehide has not been delivered yet
PanelStale == pipWin # 0 /\ wins[pipWin].st = "closed"

\* a render() run in the current state leaves the windows as they are and
\* raises nothing
RenderLeavesPanel ==
    LET quiet(rr) == ~rr.threw /\ rr.wins = wins
    IN quiet(Rerender(stFollowed, stFilter, pipWin, wins))

\* C17: while the reference is stale, a render is a no-op on the panel and
\* raises no error, and no step touches the closed window until its pagehide
\* is delivered; the delivery of the pagehide leaves the adapter CLOSED
\* (reference cleared, Close disabled).
C17_StalePanelUntilPagehide ==
    /\ [](PanelStale => RenderLeavesPanel)
    /\ [][PanelStale =>
              /\ (wins'[pipWin] # wins[pipWin] => PageHide(pipWin))
              /\ (PageHide(pipWin) => PanelClosed')]_vars

\* the reference is stale while a followed match of the snapshot has no
\* home field (painting it into an open panel raises) and the Followed list
\* shows it
C17_Witness ==
    /\ PanelStale
    /\ abbrThrows(followedMatches(LIVE_DATA, loadFollowedSet(stFollowed)))
    /\ PillSeq # <<>>
    /\ toastMsg # "TypeError"

\* C18: a Close click leaves the adapter CLOSED, and a Close click on a
\* CLOSED adapter changes nothing at all; so a second Close click in a row
\* leaves the state the first one left.
C18_CloseIsIdempotent ==
    [][CloseClick =>
          /\ PanelClosed'
          /\ PanelClosed => UNCHANGED vars]_vars

\* Close was clicked on the open panel: the only window ever opened is
\* closed, its pagehide still to come, and the adapter is CLOSED
C18_Witness ==
    /\ PanelClosed
    /\ wins[1].st = "closed"
    /\ \A w \in 2..MaxWins : wins[w].st = "none"

\* the click listeners on the buttons of the pills and of the rows of d
BindsOf(d) ==
    {d.followed[i].binds : i \in 1..Len(d.followed)}
    \cup UNION {{d.leagues[i].rows[j].binds : j \in 1..Len(d.leagues[i].rows)} :
                 i \in 1..Len(d.leagues)}

\* C19: render() called twice in a row on the same snapshot, Followed Set
\* and filter paints the same on the primary surface and in the panel both
\* times, raises the same both times, and leaves one click listener on
\* every button.
C19_RenderIsIdempotent ==
    LET same(r1, r2) ==
            /\ r2.dom = r1.dom
            /\ r2.wins = r1.wins
            /\ r2.threw = r1.threw
            /\ BindsOf(r2.dom) \subseteq {1}
        twice(r1) ==
            same(r1, render(LIVE_DATA, stFollowed, stFilter, pipWin, r1.wins, r1.dom, Legacy))
    IN twice(render(LIVE_DATA, stFollowed, stFilter, pipWin, wins, dom, Legacy))

\* the panel is open and shows rows, the Followed list has pills, and rows
\* with Follow and with Unfollow are displayed
C19_Witness ==
    /\ PanelOpen
    /\ PanelContent.kind = "rows"
    /\ PillSeq # <<>>
    /\ RowIds("Follow") # {}
    /\ RowIds("Unfollow") # {}

\* the kickoff texts of a match that is not live: the meta text of its row
\* and the kickoff field the Followed list and the panel print
KickoffTexts(m) == [meta |-> m.minute, kickoff |-> m.kickoff]

\* C20 as stated: the snapshot a poll installs holds, for every record that
\* is not live, an empty kickoff text when the record has no kickoff
\* timestamp and also when it has one that does not parse, and a formatted
\* time only when the timestamp parses.
C20_KickoffTextOrEmpty ==
    [][PollEnds =>
          \A i \in 1..MaxInflight, f \in FeedIds :
              \/ ~Merges(f)
              \/ ~ResolveFetch(i, "ok", f)
              \/ \A k \in LeagueIds : \A j \in 1..Len(Chosen(f, k)) :
                     Chosen(f, k)[j].isLive
                     \/ KickoffTexts(LIVE_DATA'[k][j]) =
                            IF Chosen(f, k)[j].iso = "ok"
                            THEN [meta |-> "KO 15:00", kickoff |-> "15:00"]
                            ELSE [meta |-> "", kickoff |-> ""]]_vars

\* the statuses of the matches of a league's list
StatusesOf(list) == {list[j].status : j \in 1..Len(list)}

\* C21 as stated: every league's list of the snapshot holds matches of one
\* status only, and the rows of every displayed league section are the
\* whole list of that league, in its order.
C21_OneStatusPerLeague ==
    /\ \A k \in LeagueIds : Cardinality(StatusesOf(LIVE_DATA[k])) <= 1
    /\ \A i \in 1..Len(dom.leagues) :
           IdsOf(dom.leagues[i].rows) = IdsOf(LIVE_DATA[dom.leagues[i].lg])

\* the ids of the Followed Set that a stored value loads as
StoredIds(raw) == SeqToSet(loadFollowedSet(raw))

\* the step starts a fetch (a timer callback)
PollStarts == Len(inflight') > Len(inflight)

\* C22: every follow, unfollow, bulk follow and clear takes the persisted
\* Followed Set as the step before left it and leaves it with its own change
\* applied, and the poll completions and timer callbacks in between leave it
\* alone; so after any interleaving the persisted set is what the user's
\* actions, applied one after another in order, make of it: no update lost.
C22_FollowUpdatesInOrder ==
    [][IF PollEnds \/ PollStarts
       THEN stFollowed' = stFollowed
       ELSE /\ \A id \in MatchIds :
                   /\ FollowClick(id) => StoredIds(stFollowed') = FollowedIds \cup {id}
                   /\ UnfollowClick(id) => StoredIds(stFollowed') = FollowedIds \ {id}
            /\ FollowAllLive =>
                   StoredIds(stFollowed') = FollowedIds \cup SeqToSet(liveIds(LIVE_DATA))
            /\ ClearFollows => StoredIds(stFollowed') = {}
            /\ stFollowed' # stFollowed =>
                   \/ \E id \in MatchIds : FollowClick(id) \/ UnfollowClick(id)
                   \/ FollowAllLive
                   \/ ClearFollows]_vars

\* m2 was followed on top of the stored m1 and m9 (m9 not in any snapshot),
\* with the timer running and two fetches in flight
C22_Witness ==
    /\ stFollowed = saveFollowedSet(<<"m1", "m9", "m2">>)
    /\ timerOn
    /\ Len(inflight) = 2

\* the step is a user action that took effect: it changed a store, the
\* panel, the pending window request, or raised a notification of its own
UserActed ==
    \/ stFollowed' # stFollowed
    \/ stFilter' # stFilter
    \/ pipWin' # pipWin
    \/ closeDisabled' # closeDisabled
    \/ openPending' # openPending
    \/ alertMsg' # alertMsg
    \/ /\ toastMsg' # toastMsg
       /\ toastMsg' \notin {"Failed to fetch", "API error 500", "TypeError"}

\* C23: a user action (follow, unfollow, filter change, bulk follow, clear,
\* open, close) leaves the snapshot as it was and starts no fetch; fetches
\* are started by the timer alone, and the snapshot changes only in the step
\* that ends a poll whose body merged, to the merge of that body.
C23_UserActionsKeepSnapshot ==
    [][/\ UserActed => (LIVE_DATA' = LIVE_DATA /\ inflight' = inflight)
       /\ PollStarts => Tick
       /\ LIVE_DATA' # LIVE_DATA =>
              /\ PollEnds
              /\ \E f \in FeedIds : Merges(f) /\ LIVE_DATA' = SnapshotOf(f)]_vars

\* with body 1 installed and no fetch in flight, the user has filtered,
\* opened the panel and cleared the follows
C23_Witness ==
    /\ LIVE_DATA = SnapshotOf(1)
    /\ inflight = <<>>
    /\ stFilter = "pl"
    /\ PanelOpen
    /\ toastMsg = "Cleared followed matches"

\* the windows opened so far; requestWindow() takes them in order
OpenedWins == {w \in 1..MaxWins : wins[w].st # "none"}

\* the panel opened last is still open
NewestOpen ==
    /\ OpenedWins # {}
    /\ wins[CHOOSE w \in OpenedWins : \A v \in OpenedWins : v <= w].st = "open"

\* no pagehide is still to be delivered
NoPagehidePending == \A w \in 1..MaxWins : wins[w].st # "closed"

\* C24 as stated: once every pagehide has been delivered, the script holds
\* a panel and Close is enabled exactly when the panel opened last is still
\* open, and the panel held is that one; and the pagehide of an earlier
\* panel leaves the reference to a newer, still open panel in place.
C24_ReferenceTracksNewestPanel ==
    /\ [](NoPagehidePending =>
             /\ (pipWin # 0) <=> NewestOpen
             /\ (~closeDisabled) <=> NewestOpen
             /\ pipWin # 0 => wins[pipWin].st = "open")
    /\ [][\A w \in 1..MaxWins :
              (PanelOpen /\ w # pipWin /\ PageHide(w)) => pipWin' = pipWin]_vars

\* the notifications run() raises for a poll cycle that failed
FetchFailures == {"Failed to fetch", "API error 500", "TypeError"}

\* C25 as stated: a step that ends a poll and raises a failure notification
\* has left the snapshot as it was.
C25_FailureMeansSnapshotKept ==
    [][(PollEnds /\ toastMsg' # toastMsg /\ toastMsg' \in FetchFailures) =>
          LIVE_DATA' = LIVE_DATA]_vars

====
